---- MODULE Spec2Model ----
(***************************************************************************)
(* Crypto quote download service: the v1 and v2 download handlers          *)
(* (app/main.py), the secret -> ticker store (app/db.py) and the table     *)
(* builder and archive packager (app/utils.py).                            *)
(*                                                                         *)
(* Strings are sequences of lexemes: "BTC, ETH" is <<"BTC", ",", " ",      *)
(* "ETH">>.  A lexeme is a word without separators, or one separator.      *)
(* Python's None for an optional string is the reserved sequence None.     *)
(***************************************************************************)
EXTENDS Integers, Sequences, FiniteSets, Bags, TLC

VARIABLES
    secret_tickers,   \* the table secret_tickers of tickers.db: a bag of rows <<secret, ticker>>
    req,              \* per request slot: the handler's locals and its position
    committed,        \* history: every row an INSERT has committed so far
    t_pc, t_model, t_data, t_table, t_out,   \* build_crypto_table, run on its own
    z_pc, z_dataframe, z_input, z_timestamp, z_now, z_out   \* zip_csv_and_xlsx, run on its own

vars == <<secret_tickers, req, committed,
          t_pc, t_model, t_data, t_table, t_out,
          z_pc, z_dataframe, z_input, z_timestamp, z_now, z_out>>

lifeVars == <<secret_tickers, req, committed>>
tableVars == <<t_pc, t_model, t_data, t_table, t_out>>
zipVars == <<z_pc, z_dataframe, z_input, z_timestamp, z_now, z_out>>

-----------------------------------------------------------------------------
(* Bounds *)

\* longest generated tickers string, in lexemes
MaxRawLen == 3
\* most entries of a provider response
MaxEntries == 2
\* most column fields of a configuration that are None
MaxNone == 1

-----------------------------------------------------------------------------
(* Strings *)

COMMA == ","
SP == " "
LPAREN_SEP == " ("
None == <<"<None>">>

\* Python truthiness of an optional string
Truthy(s) == s # None /\ s # <<>>

RECURSIVE lstrip(_)
lstrip(s) == IF s # <<>> /\ Head(s) = SP THEN lstrip(Tail(s)) ELSE s

RECURSIVE rstrip(_)
rstrip(s) == IF s # <<>> /\ s[Len(s)] = SP THEN rstrip(SubSeq(s, 1, Len(s) - 1)) ELSE s

\* str.strip()
strip(s) == rstrip(lstrip(s))

\* str.split(sep): the pieces between the occurrences of sep
RECURSIVE split(_, _)
split(s, sep) ==
    IF \E i \in 1..Len(s) : s[i] = sep
    THEN LET i == CHOOSE k \in 1..Len(s) : s[k] = sep /\ \A j \in 1..(k - 1) : s[j] # sep
         IN  <<SubSeq(s, 1, i - 1)>> \o split(SubSeq(s, i + 1, Len(s)), sep)
    ELSE <<s>>

\* str.replace(x, "")
remove(s, x) == SelectSeq(s, LAMBDA c : c # x)

\* sep.join(parts)
RECURSIVE join(_, _)
join(parts, sep) ==
    IF parts = <<>> THEN <<>>
    ELSE IF Len(parts) = 1 THEN parts[1]
    ELSE parts[1] \o <<sep>> \o join(Tail(parts), sep)

Range(f) == {f[i] : i \in DOMAIN f}

\* every sequence over S of length at most n
SeqsUpTo(S, n) == UNION {[1..k -> S] : k \in 0..n}

-----------------------------------------------------------------------------
(* Settings (app/config.py) *)

CP_SECRET == <<"cp-secret">>

DEFAULT_TOKENS_NEW ==
    << <<"Bitcoin", LPAREN_SEP, "BTC", ")">>, <<"Solana", LPAREN_SEP, "SOL", ")">> >>

-----------------------------------------------------------------------------
(* Ticker resolution helpers *)

\* wrong: keeps the whole display string after the name
get_token_symbols_whole(tokens_new) ==
    [k \in DOMAIN tokens_new |-> remove(tokens_new[k], LPAREN_SEP)]

get_token_symbols(tokens_new) ==
    [k \in DOMAIN tokens_new |->
        remove(remove(split(tokens_new[k], LPAREN_SEP)[2], "("), ")")]

\* [t.strip() for t in tickers.split(",") if t.strip()]
ParseTickers(tickers) ==
    LET pieces == split(tickers, COMMA)
        stripped == [k \in DOMAIN pieces |-> strip(pieces[k])]
    IN  SelectSeq(stripped, LAMBDA t : t # <<>>)

\* wrong: keeps the last occurrence of each key
RECURSIVE dict_fromkeys_last(_)
dict_fromkeys_last(xs) ==
    IF xs = <<>> THEN <<>>
    ELSE IF \E k \in 2..Len(xs) : xs[k] = xs[1] THEN dict_fromkeys_last(Tail(xs))
    ELSE <<xs[1]>> \o dict_fromkeys_last(Tail(xs))

RECURSIVE FromKeys(_, _)
FromKeys(xs, acc) ==
    IF xs = <<>> THEN acc
    ELSE FromKeys(Tail(xs),
                  IF \E k \in DOMAIN acc : acc[k] = Head(xs) THEN acc
                  ELSE Append(acc, Head(xs)))

\* list(dict.fromkeys(xs))
dict_fromkeys(xs) == FromKeys(xs, <<>>)

FALLBACK == << <<"BTC">>, <<"ETH">>, <<"PI">> >>

\* wrong: an empty list is passed on
UniqueTickers_nofallback(final_tickers) == dict_fromkeys(final_tickers)

\* lines 139-142
UniqueTickers(final_tickers) ==
    LET unique_tickers == dict_fromkeys(final_tickers)
    IN  IF unique_tickers = <<>> THEN FALLBACK ELSE unique_tickers

-----------------------------------------------------------------------------
(* Ticker store (app/db.py) *)

Row(secret, ticker) == <<secret, ticker>>

\* wrong: INSERT into a table without the primary key
add_ticker_plain(table, secret, ticker) == table (+) SetToBag({Row(secret, ticker)})

\* wrong: the INSERT is never committed
add_ticker_uncommitted(table, secret, ticker) == table

\* INSERT OR IGNORE INTO secret_tickers, PRIMARY KEY (secret, ticker)
add_ticker(table, secret, ticker) ==
    IF BagIn(Row(secret, ticker), table) THEN table
    ELSE table (+) SetToBag({Row(secret, ticker)})

\* the lists a SELECT over `rows` may return: every row once per copy, in any order
RowOrders(table, rows) ==
    LET n == BagCardinality([row \in rows |-> table[row]])
    IN  {p \in [1..n -> {row[2] : row \in rows}] :
            \A row \in rows : Cardinality({k \in 1..n : p[k] = row[2]}) = table[row]}

\* wrong: SELECT without the WHERE clause
get_tickers_all(table, secret) == RowOrders(table, BagToSet(table))

\* SELECT ticker FROM secret_tickers WHERE secret = ?  (row order is the store's)
get_tickers(table, secret) ==
    RowOrders(table, {row \in BagToSet(table) : row[1] = secret})

-----------------------------------------------------------------------------
(* Python values held in table cells and provider attributes *)

PyNone == [k |-> "none", n |-> 0, s |-> ""]
PyNum(x) == [k |-> "num", n |-> x, s |-> ""]
\* a float rounded to two decimals, held in hundredths
PyFloat2(h) == [k |-> "float2", n |-> h, s |-> ""]
PyStr(x) == [k |-> "str", n |-> 0, s |-> x]
\* a key the mapping does not hold
Absent == [k |-> "absent", n |-> 0, s |-> ""]

\* mapping.get(key)
Get(v) == IF v = Absent THEN PyNone ELSE v
\* mapping.get(key, 0)
Get0(v) == IF v = Absent THEN PyNum(0) ELSE v

-----------------------------------------------------------------------------
(* Column selection configuration (app/validators.py) *)

ColumnFields ==
    <<"price", "token_address", "market_cap_abbrv", "market_cap", "market_cap_dominance",
      "volume_24h", "circulating_supply", "total_supply", "volume_change_24h",
      "supply_percent">>

\* declaration order of the request model's fields
FieldOrder == ColumnFields \o <<"tickers", "secret">>

\* field values: "True", "False", "None"; "str" for a string held by tickers or secret
IsTrue(v) == v = "True"

\* key.replace("_", " ").title()
TitleCase ==
    [f \in Range(FieldOrder) |->
        CASE f = "price" -> "Price"
          [] f = "token_address" -> "Token Address"
          [] f = "market_cap_abbrv" -> "Market Cap Abbrv"
          [] f = "market_cap" -> "Market Cap"
          [] f = "market_cap_dominance" -> "Market Cap Dominance"
          [] f = "volume_24h" -> "Volume 24H"
          [] f = "circulating_supply" -> "Circulating Supply"
          [] f = "total_supply" -> "Total Supply"
          [] f = "volume_change_24h" -> "Volume Change 24H"
          [] f = "supply_percent" -> "Supply Percent"
          [] f = "tickers" -> "Tickers"
          [] f = "secret" -> "Secret"]

-----------------------------------------------------------------------------
(* build_crypto_table (app/utils.py) *)

\* lines 82-90
ColumnTitle(key) ==
    IF key = "supply_percent" THEN "Supply %"
    ELSE IF key = "volume_change_24h" THEN "Volume Change(24h)"
    ELSE IF key = "volume_24h" THEN "Volume(24h)"
    ELSE TitleCase[key]

\* the keys of model.model_dump(exclude_none=True), in declaration order
model_dump_exclude_none(model) == SelectSeq(FieldOrder, LAMBDA f : model[f] # "None")

\* crypto_table[title] = []
SetColumn(table, title) ==
    IF \E j \in DOMAIN table.cols : table.cols[j] = title
    THEN LET j == CHOOSE j \in DOMAIN table.cols : table.cols[j] = title
         IN  [table EXCEPT !.vals[j] = <<>>]
    ELSE [table EXCEPT !.cols = Append(@, title), !.vals = Append(@, <<>>)]

RECURSIVE AddColumns(_, _, _)
AddColumns(keys, model, table) ==
    IF keys = <<>> THEN table
    ELSE LET key == Head(keys)
         IN  AddColumns(Tail(keys), model,
                 IF model[key] # "False" /\ key \notin {"tickers", "secret"}
                 THEN SetColumn(table, ColumnTitle(key))
                 ELSE table)

\* lines 72-96: the table before the first provider entry
NewTable(model) ==
    AddColumns(model_dump_exclude_none(model), model,
        [cols |-> <<"Name", "Symbol">>, vals |-> << <<>>, <<>> >>, err |-> "", crypto_count |-> 0])

\* crypto_table[title].append(v); a missing column is a KeyError
AppendTo(table, title, v) ==
    IF table.err # "" THEN table
    ELSE IF \E j \in DOMAIN table.cols : table.cols[j] = title
    THEN LET j == CHOOSE j \in DOMAIN table.cols : table.cols[j] = title
         IN  [table EXCEPT !.vals[j] = Append(@, v)]
    ELSE [table EXCEPT !.err = "KeyError"]

\* crypto.get("quote", {}).get("USD", {}).get(attr)
QuoteGet(crypto, attr) == IF crypto.has_quote THEN Get(crypto[attr]) ELSE PyNone

\* round((circ / total) * 100, 2) if total else "N/A"
SupplyPercent(crypto) ==
    LET circ == Get0(crypto.circulating_supply).n
        total == Get0(crypto.total_supply).n
    IN  IF total # 0 THEN PyFloat2((2 * circ * 10000 + total) \div (2 * total))
        ELSE PyStr("N/A")

When(cond, table, title, v) == IF cond THEN AppendTo(table, title, v) ELSE table

\* the appends of one loop iteration, lines 107-134
RowAppends(table, crypto, model) ==
    LET a0 == AppendTo(table, "Name", Get(crypto.name))
        a1 == AppendTo(a0, "Symbol", Get(crypto.symbol))
        a2 == When(IsTrue(model["price"]), a1, "Price", QuoteGet(crypto, "price"))
        a3 == When(IsTrue(model["token_address"]), a2, "Token Address", Get(crypto.token_address))
        a4 == When(IsTrue(model["market_cap_abbrv"]), a3, "Market Cap Abbrv",
                   QuoteGet(crypto, "market_cap"))
        a5 == When(IsTrue(model["market_cap"]), a4, "Market Cap", QuoteGet(crypto, "market_cap"))
        a6 == When(IsTrue(model["market_cap_dominance"]), a5, "Market Cap Dominance",
                   QuoteGet(crypto, "market_cap_dominance"))
        a7 == When(IsTrue(model["volume_24h"]), a6, "Volume(24h)", QuoteGet(crypto, "volume_24h"))
        a8 == When(IsTrue(model["circulating_supply"]), a7, "Circulating Supply",
                   Get(crypto.circulating_supply))
        a9 == When(IsTrue(model["total_supply"]), a8, "Total Supply", Get(crypto.total_supply))
        a10 == When(IsTrue(model["volume_change_24h"]), a9, "Volume Change(24h)",
                    QuoteGet(crypto, "volume_change_24h"))
    IN  When(IsTrue(model["supply_percent"]), a10, "Supply %", SupplyPercent(crypto))

\* wrong: an entry without a price is left after Name and Symbol were appended
AppendRow_skip(table, crypto, model) ==
    LET named == AppendTo(AppendTo(table, "Name", Get(crypto.name)), "Symbol", Get(crypto.symbol))
        done == IF QuoteGet(crypto, "price") = PyNone THEN named
                ELSE RowAppends(table, crypto, model)
    IN  IF done.err # "" THEN done ELSE [done EXCEPT !.crypto_count = @ + 1]

\* one iteration of the loop at line 98
AppendRow(table, crypto, model) ==
    LET done == RowAppends(table, crypto, model)
    IN  IF done.err # "" THEN done ELSE [done EXCEPT !.crypto_count = @ + 1]

\* lines 141-151: the length check and pd.DataFrame(crypto_table)
MakeDataFrame(table) ==
    IF table.err # "" THEN [err |-> table.err, columns |-> <<>>, rows |-> <<>>]
    ELSE IF Cardinality({Len(table.vals[j]) : j \in DOMAIN table.vals}) > 1
    THEN [err |-> "ValueError", columns |-> <<>>, rows |-> <<>>]
    ELSE [err |-> "",
          columns |-> table.cols,
          rows |-> [i \in 1..Len(table.vals[1]) |->
                       [j \in DOMAIN table.cols |-> table.vals[j][i]]]]

RECURSIVE AppendRows(_, _, _)
AppendRows(table, entries, model) ==
    IF entries = <<>> \/ table.err # "" THEN table
    ELSE AppendRows(AppendRow(table, Head(entries), model), Tail(entries), model)

\* build_crypto_table(data, model); data["data"] of a body without "data" is a KeyError
build_crypto_table(data, model) ==
    IF ~data.has_data THEN [err |-> "KeyError", columns |-> <<>>, rows |-> <<>>]
    ELSE MakeDataFrame(AppendRows(NewTable(model), data.data, model))

-----------------------------------------------------------------------------
(* zip_csv_and_xlsx (app/utils.py) *)

\* the names of the sample entries, in Python's str order
NameOrder == <<"Bitcoin", "Cardano", "Ethereum", "Solana">>

Rank(name) == CHOOSE i \in DOMAIN NameOrder : NameOrder[i] = name

NameColumn(columns) == CHOOSE j \in DOMAIN columns : columns[j] = "Name"

Perms(n) == {p \in [1..n -> 1..n] : \A i, j \in 1..n : p[i] = p[j] => i = j}

\* wrong: ascending order
MayPrecedeAsc(a, b) == b.k = "none" \/ (a.k # "none" /\ Rank(a.s) <= Rank(b.s))

\* ascending=False: a may stand before b; missing names go last (na_position="last")
MayPrecede(a, b) == b.k = "none" \/ (a.k # "none" /\ Rank(a.s) >= Rank(b.s))

\* dataframe.sort_values(by="Name", ascending=False): a new frame; ties in any order
sort_values(dataframe) ==
    LET n == Len(dataframe.rows)
        c == NameColumn(dataframe.columns)
    IN  {[dataframe EXCEPT !.rows = [i \in 1..n |-> dataframe.rows[p[i]]]] :
            p \in {q \in Perms(n) :
                     \A i \in 1..(n - 1) :
                        MayPrecede(dataframe.rows[q[i]][c], dataframe.rows[q[i + 1]][c])}}

\* a value as to_csv writes it: None is the empty field
CsvField(v) ==
    CASE v.k = "none" -> [k |-> "text", n |-> 0, s |-> ""]
      [] v.k = "str" -> [k |-> "text", n |-> 0, s |-> v.s]
      [] v.k = "num" -> [k |-> "digits", n |-> v.n, s |-> ""]
      [] v.k = "float2" -> [k |-> "decimal", n |-> v.n, s |-> ""]

\* a value as to_excel writes it: None is a blank cell
XlsxCell(v) == IF v.k = "none" THEN [k |-> "blank", n |-> 0, s |-> ""] ELSE v

\* to_csv(index=False)
to_csv(frame) ==
    [header |-> frame.columns,
     rows |-> [i \in DOMAIN frame.rows |-> [j \in DOMAIN frame.rows[i] |-> CsvField(frame.rows[i][j])]]]

\* to_excel(index=False)
to_excel(frame) ==
    [header |-> frame.columns,
     rows |-> [i \in DOMAIN frame.rows |-> [j \in DOMAIN frame.rows[i] |-> XlsxCell(frame.rows[i][j])]]]

\* f"{folder_name}/crypto_data_{timestamp}.<ext>"
EntryName(timestamp, ext) ==
    <<"crypto_data_">> \o timestamp \o <<"/", "crypto_data_">> \o timestamp \o <<ext>>

\* the archives zip_csv_and_xlsx(dataframe, timestamp) may return at time `now`
zip_csv_and_xlsx(dataframe, timestamp, now) ==
    LET stamp == IF timestamp = None THEN now ELSE timestamp
    IN  {<<[name |-> EntryName(stamp, ".xlsx"), file |-> to_excel(x)],
           [name |-> EntryName(stamp, ".csv"), file |-> to_csv(c)]>> :
            x \in sort_values(dataframe), c \in sort_values(dataframe)}

-----------------------------------------------------------------------------
(* Inputs *)

Requests == {"r1", "r2"}

\* a non-default secret
ALICE == <<"alice">>

\* tickers strings sent under a secret
KeyedRaws ==
    {None, <<>>, <<SP, COMMA, SP>>, <<"ADA">>, <<"SOL">>,
     <<"BTC", COMMA, SP, "ADA", COMMA, "BTC">>}

\* every tickers string of at most MaxRawLen lexemes, and the documented example
GeneratedRaws ==
    SeqsUpTo({"BTC", "ETH", COMMA, SP}, MaxRawLen)
        \cup {None, <<"BTC", COMMA, "ETH", COMMA, "BTC">>}

\* provider entries: complete; without the quote block and with no supply; sparse
E_BTC ==
    [key |-> "BTC", name |-> PyStr("Bitcoin"), symbol |-> PyStr("BTC"), has_quote |-> TRUE,
     price |-> PyNum(64000), market_cap |-> PyNum(1200), market_cap_dominance |-> PyNum(52),
     volume_24h |-> PyNum(30), volume_change_24h |-> PyNum(-2),
     circulating_supply |-> PyNum(50), total_supply |-> PyNum(100), token_address |-> Absent]

E_SOL ==
    [key |-> "SOL", name |-> PyStr("Solana"), symbol |-> PyStr("SOL"), has_quote |-> FALSE,
     price |-> Absent, market_cap |-> Absent, market_cap_dominance |-> Absent,
     volume_24h |-> Absent, volume_change_24h |-> Absent,
     circulating_supply |-> PyNum(7), total_supply |-> PyNum(0),
     token_address |-> PyStr("So11111")]

E_ADA ==
    [key |-> "ADA", name |-> Absent, symbol |-> PyStr("ADA"), has_quote |-> TRUE,
     price |-> Absent, market_cap |-> PyNum(15), market_cap_dominance |-> Absent,
     volume_24h |-> PyNum(0), volume_change_24h |-> Absent,
     circulating_supply |-> Absent, total_supply |-> PyNum(3), token_address |-> Absent]

\* a second asset called Bitcoin
E_WBTC == [E_BTC EXCEPT !.key = "WBTC", !.symbol = PyStr("WBTC"), !.price = Absent]

\* the response bodies whose "data" holds at most n of the entries, each key once
Responses(entries, n) ==
    {[has_data |-> TRUE, data |-> d] :
        d \in {e \in SeqsUpTo(entries, n) : \A i, j \in DOMAIN e : e[i].key = e[j].key => i = j}}

\* a success body without "data"
NoDataResponse == [has_data |-> FALSE, data |-> <<>>]

Flags(enabled, none) ==
    [f \in Range(ColumnFields) |->
        IF f \in enabled THEN "True" ELSE IF f \in none THEN "None" ELSE "False"]

\* the request model as build_crypto_table reads it
ModelOf(flags, tickers, secret) ==
    [f \in Range(FieldOrder) |->
        IF f = "tickers" THEN (IF tickers = None THEN "None" ELSE "str")
        ELSE IF f = "secret" THEN (IF secret = None THEN "None" ELSE "str")
        ELSE flags[f]]

Clock == {<<"2025-12-18_15-14-38">>}

-----------------------------------------------------------------------------
(* Request handlers (app/main.py) *)

NoResponse == [status |-> 0, detail |-> <<>>, filename |-> <<>>, archive |-> <<>>]

\* what the server answers when an exception leaves the handler
InternalServerError ==
    [status |-> 500, detail |-> <<"Internal Server Error">>, filename |-> <<>>, archive |-> <<>>]

Idle ==
    [pc |-> "idle", version |-> "", secret |-> None, tickers |-> None, i |-> 0,
     final_tickers |-> <<>>, unique_tickers |-> <<>>, symbols |-> <<>>, calls |-> 0,
     upstream |-> [status |-> 0, payload |-> <<>>], response |-> NoResponse,
     write_failed |-> FALSE]

\* line 114
new_tickers(rq) == IF Truthy(rq.tickers) THEN ParseTickers(rq.tickers) ELSE <<>>

\* lines 104-107
DefaultsFor(secret) ==
    IF secret = CP_SECRET THEN get_token_symbols(DEFAULT_TOKENS_NEW) ELSE <<>>

\* lines 125-132
NoSecretTickers(final_tickers, tickers) ==
    IF Truthy(tickers) THEN final_tickers \o ParseTickers(tickers) ELSE FALLBACK

\* lines 139-145
Resolved(rq) ==
    [rq EXCEPT !.unique_tickers = UniqueTickers(rq.final_tickers),
               !.symbols = join(UniqueTickers(rq.final_tickers), COMMA),
               !.pc = "fetch"]

\* str(e) of HTTPException(status_code, detail)
StrOfHTTPException(status, detail) == <<ToString(status), ": ">> \o detail

\* get_data up to the provider call, lines 56-73
StartV1(r, raws) ==
    /\ req[r].pc = "idle"
    /\ \E tickers \in raws :
          req' = [req EXCEPT ![r] =
                    [Idle EXCEPT !.pc = "fetch", !.version = "v1", !.tickers = tickers,
                                 !.symbols =
                                     IF tickers = CP_SECRET
                                     THEN join(get_token_symbols(DEFAULT_TOKENS_NEW), COMMA)
                                     ELSE IF tickers = None
                                     THEN <<"BTC", COMMA, "ETH", COMMA, "PI">>
                                     ELSE tickers]]
    /\ UNCHANGED <<secret_tickers, committed, tableVars, zipVars>>

\* get_data_v2 up to its first store call, or up to the provider call without a secret
StartV2(r, secrets, keyed, unkeyed) ==
    /\ req[r].pc = "idle"
    /\ \E secret \in secrets :
       \E tickers \in (IF Truthy(secret) THEN keyed ELSE unkeyed) :
          LET started == [Idle EXCEPT !.version = "v2", !.secret = secret,
                                      !.tickers = tickers,
                                      !.final_tickers = DefaultsFor(secret)]
          IN  req' = [req EXCEPT ![r] =
                        IF Truthy(secret)
                        THEN [started EXCEPT
                                 !.pc = IF new_tickers(started) # <<>> THEN "add" ELSE "read"]
                        ELSE Resolved([started EXCEPT
                                 !.final_tickers = NoSecretTickers(@, tickers)])]
    /\ UNCHANGED <<secret_tickers, committed, tableVars, zipVars>>

\* one add_ticker(secret, t) of the loop at line 116
AddTicker(r) ==
    /\ req[r].pc = "add"
    /\ LET t == new_tickers(req[r])[req[r].i + 1]
       IN  /\ secret_tickers' = add_ticker(secret_tickers, req[r].secret, t)
           /\ committed' = committed \cup {Row(req[r].secret, t)}
    /\ req' = [req EXCEPT ![r].i = @ + 1,
                          ![r].pc = IF req[r].i + 1 < Len(new_tickers(req[r]))
                                    THEN "add" ELSE "read"]
    /\ UNCHANGED <<tableVars, zipVars>>

\* add_ticker raises: nothing catches it before the server does
AddTickerFails(r) ==
    /\ req[r].pc = "add"
    /\ req' = [req EXCEPT ![r].pc = "aborted", ![r].write_failed = TRUE,
                          ![r].response = InternalServerError]
    /\ UNCHANGED <<secret_tickers, committed, tableVars, zipVars>>

\* lines 120-145
GetTickers(r) ==
    /\ req[r].pc = "read"
    /\ \E persisted \in get_tickers(secret_tickers, req[r].secret) :
          req' = [req EXCEPT ![r] = Resolved([req[r] EXCEPT !.final_tickers = @ \o persisted])]
    /\ UNCHANGED <<secret_tickers, committed, tableVars, zipVars>>

\* get_tickers raises
GetTickersFails(r) ==
    /\ req[r].pc = "read"
    /\ req' = [req EXCEPT ![r].pc = "aborted", ![r].response = InternalServerError]
    /\ UNCHANGED <<secret_tickers, committed, tableVars, zipVars>>

\* except Exception as e: raise HTTPException(status_code=500, detail=str(e))
ErrorResponse(status, detail) ==
    [status |-> 500, detail |-> StrOfHTTPException(status, detail),
     filename |-> <<>>, archive |-> <<>>]

\* the provider answers with a status outside [200, 201]
FetchFails(r, errors) ==
    /\ req[r].pc = "fetch"
    /\ \E e \in errors :
          req' = [req EXCEPT ![r].pc = "done", ![r].calls = @ + 1, ![r].upstream = e,
                             ![r].response = ErrorResponse(e.status, e.payload)]
    /\ UNCHANGED <<secret_tickers, committed, tableVars, zipVars>>

\* the provider answers 200 or 201: build, package, respond
FetchReturns(r, statuses, results, flagsets) ==
    /\ req[r].pc = "fetch"
    /\ \E status \in statuses, result \in results, flags \in flagsets, now \in Clock :
          LET rq == req[r]
              dataframe == build_crypto_table(result, ModelOf(flags, rq.tickers, rq.secret))
              prefix == IF rq.version = "v1" THEN "crypto_data_" ELSE "crypto_data_v2_"
          IN  \E archive \in (IF dataframe.err # "" THEN {<<>>}
                              ELSE zip_csv_and_xlsx(dataframe, now, now)) :
                 req' = [req EXCEPT
                    ![r].pc = "done", ![r].calls = @ + 1,
                    ![r].upstream = [status |-> status, payload |-> <<>>],
                    ![r].response =
                        IF dataframe.err # ""
                        THEN [status |-> 500, detail |-> <<dataframe.err>>,
                              filename |-> <<>>, archive |-> <<>>]
                        ELSE [status |-> 200, detail |-> <<>>,
                              filename |-> <<prefix>> \o now \o <<".zip">>,
                              archive |-> archive]]
    /\ UNCHANGED <<secret_tickers, committed, tableVars, zipVars>>

\* the response is sent; the slot serves the next request
Finish(r) ==
    /\ req[r].pc \in {"done", "aborted"}
    /\ req' = [req EXCEPT ![r] = Idle]
    /\ UNCHANGED <<secret_tickers, committed, tableVars, zipVars>>

-----------------------------------------------------------------------------
(* build_crypto_table, step by step *)

NoFrame == [err |-> "", columns |-> <<>>, rows |-> <<>>]

TableEntries == {E_BTC, E_SOL, E_ADA}

\* every setting of the column fields with at most MaxNone of them None
TableModels ==
    {ModelOf(Flags(enabled, none), <<"ADA">>, None) :
        enabled \in SUBSET Range(ColumnFields),
        none \in {x \in SUBSET Range(ColumnFields) : Cardinality(x) <= MaxNone}}

TableInit ==
    /\ t_pc = "start"
    /\ t_model \in TableModels
    /\ t_data = [has_data |-> TRUE, data |-> <<>>]
    /\ t_table = [cols |-> <<>>, vals |-> <<>>, err |-> "", crypto_count |-> 0]
    /\ t_out = NoFrame

TableOff ==
    /\ t_pc = "off"
    /\ t_model = ModelOf(Flags({}, {}), None, None)
    /\ t_data = [has_data |-> TRUE, data |-> <<>>]
    /\ t_table = [cols |-> <<>>, vals |-> <<>>, err |-> "", crypto_count |-> 0]
    /\ t_out = NoFrame

\* lines 72-96
T_NewTable ==
    /\ t_pc = "start"
    /\ t_pc' = "rows"
    /\ t_table' = NewTable(t_model)
    /\ UNCHANGED <<t_model, t_data, t_out, lifeVars, zipVars>>

\* the loop at line 98 takes the provider's next entry
T_Row ==
    /\ t_pc = "rows"
    /\ t_table.err = ""
    /\ Len(t_data.data) < MaxEntries
    /\ \E crypto \in TableEntries :
          /\ \A i \in DOMAIN t_data.data : t_data.data[i].key # crypto.key
          /\ t_data' = [t_data EXCEPT !.data = Append(@, crypto)]
          /\ t_table' = AppendRow(t_table, crypto, t_model)
    /\ UNCHANGED <<t_pc, t_model, t_out, lifeVars, zipVars>>

\* lines 138-151: the entries are exhausted
T_Return ==
    /\ t_pc = "rows"
    /\ t_pc' = "done"
    /\ t_out' = MakeDataFrame(t_table)
    /\ UNCHANGED <<t_model, t_data, t_table, lifeVars, zipVars>>

-----------------------------------------------------------------------------
(* zip_csv_and_xlsx, on its own *)

ZipEntries == {E_BTC, E_SOL, E_ADA, E_WBTC}

ZipModels ==
    {ModelOf(Flags(enabled, {}), None, None) :
        enabled \in {{}, {"price"}, {"price", "supply_percent", "token_address"}}}

ZipFrames ==
    {build_crypto_table(data, model) : data \in Responses(ZipEntries, MaxEntries), model \in ZipModels}

ZipInit ==
    /\ z_pc = "call"
    /\ z_input \in ZipFrames
    /\ z_dataframe = z_input
    /\ z_timestamp \in {None, <<"2025-01-02_03-04-05">>}
    /\ z_now \in Clock
    /\ z_out = <<>>

ZipOff ==
    /\ z_pc = "off"
    /\ z_input = NoFrame
    /\ z_dataframe = NoFrame
    /\ z_timestamp = None
    /\ z_now = <<>>
    /\ z_out = <<>>

\* lines 165-194; sort_values leaves the caller's frame as it is
Z_Package ==
    /\ z_pc = "call"
    /\ z_pc' = "returned"
    /\ z_out' \in zip_csv_and_xlsx(z_dataframe, z_timestamp, z_now)
    /\ UNCHANGED <<z_dataframe, z_input, z_timestamp, z_now, lifeVars, tableVars>>

-----------------------------------------------------------------------------
(* Specifications *)

LifeInit ==
    /\ secret_tickers = EmptyBag
    /\ req = [r \in Requests |-> Idle]
    /\ committed = {}

ProviderErrors == {[status |-> 429, payload |-> <<"rate limit exceeded">>]}

GoodResponse == [has_data |-> TRUE, data |-> <<E_BTC, E_SOL>>]

\* concurrent requests
Init == LifeInit /\ TableOff /\ ZipOff

Next ==
    \E r \in Requests :
        \/ StartV1(r, {None, CP_SECRET, <<"ADA">>})
        \/ StartV2(r, {None, CP_SECRET, ALICE},
                   {None, <<"ADA">>, <<"SOL", COMMA, SP, "ADA">>},
                   {None, <<"ADA">>, <<"SOL", COMMA, SP, "ADA">>})
        \/ AddTicker(r)
        \/ AddTickerFails(r)
        \/ GetTickers(r)
        \/ GetTickersFails(r)
        \/ FetchFails(r, ProviderErrors)
        \/ FetchReturns(r, {200}, {GoodResponse, NoDataResponse}, {Flags({"price"}, {})})
        \/ Finish(r)

Spec == Init /\ [][Next]_vars

\* one request after another, over every generated tickers string
SeqNext ==
    \/ StartV1("r1", GeneratedRaws \cup {CP_SECRET})
    \/ StartV2("r1", {None, <<>>, CP_SECRET, ALICE}, KeyedRaws, GeneratedRaws)
    \/ AddTicker("r1")
    \/ AddTickerFails("r1")
    \/ GetTickers("r1")
    \/ GetTickersFails("r1")
    \/ FetchFails("r1", ProviderErrors)
    \/ FetchReturns("r1", {200, 201}, {GoodResponse, NoDataResponse},
                    {Flags({"price"}, {}), Flags({"supply_percent", "volume_24h"}, {"price"})})
    \/ Finish("r1")

SeqSpec == Init /\ [][SeqNext]_vars

\* build_crypto_table over every configuration
TableSpecInit == LifeInit /\ TableInit /\ ZipOff

TableNext == T_NewTable \/ T_Row \/ T_Return

TableSpec == TableSpecInit /\ [][TableNext]_vars

\* zip_csv_and_xlsx over the sample frames
ZipSpecInit == LifeInit /\ TableOff /\ ZipInit

ZipNext == Z_Package

ZipSpec == ZipSpecInit /\ [][ZipNext]_vars

-----------------------------------------------------------------------------
(* Properties *)

BTC == <<"BTC">>
ETH == <<"ETH">>
SOL == <<"SOL">>
ADA == <<"ADA">>
PI == <<"PI">>

NoDup(xs) == \A i, j \in DOMAIN xs : xs[i] = xs[j] => i = j

FirstIndex(xs, x) == CHOOSE i \in DOMAIN xs : xs[i] = x /\ \A j \in 1..(i - 1) : xs[j] # x

\* the tickers the store holds under a secret
StoreTickers(secret) == {row[2] : row \in {x \in BagToSet(secret_tickers) : x[1] = secret}}

\* a v2 request whose ticker list is resolved
ResolvedV2(rq) == rq.version = "v2" /\ rq.pc \in {"fetch", "done"}

\* a tickers string that holds no ticker
NoTokens(tickers) == tickers = None \/ Range(tickers) \subseteq {COMMA, SP}

\* t is a trimmed, non-empty, comma-free piece of the tickers string
IsTokenOf(t, tickers) ==
    /\ Truthy(tickers)
    /\ t # <<>>
    /\ Head(t) # SP /\ t[Len(t)] # SP /\ COMMA \notin Range(t)
    /\ \E a, b \in 1..Len(tickers) : t = SubSeq(tickers, a, b)

\* C1: the resolved list of a v2 request holds no ticker twice, holds exactly the
\* tickers of the accumulated sequence (the default symbols, then the persisted
\* tickers of the secret), ordered by first occurrence there; "BTC,ETH,BTC" without
\* a secret resolves to [BTC, ETH].
C1_FirstOccurrenceOrder ==
    \A r \in Requests :
        LET rq == req[r]
            u == rq.unique_tickers
            acc == rq.final_tickers
            d == IF rq.secret = CP_SECRET THEN <<BTC, SOL>> ELSE <<>>
        IN  ResolvedV2(rq) =>
              /\ NoDup(u)
              /\ Truthy(rq.secret) =>
                    /\ Len(acc) = Len(d) + Cardinality(StoreTickers(rq.secret))
                    /\ SubSeq(acc, 1, Len(d)) = d
                    /\ Range(SubSeq(acc, Len(d) + 1, Len(acc))) = StoreTickers(rq.secret)
              /\ acc # <<>> =>
                    /\ Range(u) = Range(acc)
                    /\ \A i, j \in DOMAIN u :
                          i < j => FirstIndex(acc, u[i]) < FirstIndex(acc, u[j])
              /\ (~Truthy(rq.secret) /\ rq.tickers = <<"BTC", COMMA, "ETH", COMMA, "BTC">>)
                    => u = <<BTC, ETH>>

\* a default-secret request whose persisted tickers repeat a default symbol
C1_Witness ==
    \E r \in Requests :
        /\ ResolvedV2(req[r])
        /\ req[r].secret = CP_SECRET
        /\ Len(req[r].unique_tickers) >= 3
        /\ Len(req[r].unique_tickers) < Len(req[r].final_tickers)

\* C2: the resolved list of a v2 request is never empty, and it is [BTC, ETH, PI]
\* when nothing was accumulated: no secret and no ticker in the tickers string, or a
\* non-default secret with no ticker in the request and none persisted under it.
C2_FallbackWhenEmpty ==
    \A r \in Requests :
        LET rq == req[r]
        IN  ResolvedV2(rq) =>
              /\ rq.unique_tickers # <<>>
              /\ rq.final_tickers = <<>> => rq.unique_tickers = <<BTC, ETH, PI>>
              /\ (NoTokens(rq.tickers) /\ ~Truthy(rq.secret))
                    => rq.unique_tickers = <<BTC, ETH, PI>>
              /\ (NoTokens(rq.tickers) /\ Truthy(rq.secret) /\ rq.secret # CP_SECRET
                    /\ StoreTickers(rq.secret) = {})
                    => rq.unique_tickers = <<BTC, ETH, PI>>

\* a non-default secret, separators only, nothing persisted
C2_Witness ==
    \E r \in Requests :
        /\ ResolvedV2(req[r])
        /\ req[r].secret = ALICE
        /\ req[r].tickers = <<SP, COMMA, SP>>
        /\ req[r].final_tickers = <<>>
        /\ req[r].unique_tickers = <<BTC, ETH, PI>>

\* C3 as stated: a default-secret v2 request without request tickers resolves to
\* exactly the default symbols, whatever requests came before.
C3_DefaultsOnly ==
    \A r \in Requests :
        (ResolvedV2(req[r]) /\ req[r].secret = CP_SECRET /\ NoTokens(req[r].tickers))
            => req[r].unique_tickers = <<BTC, SOL>>

\* C3: a default-secret v2 request without request tickers resolves to the default
\* symbols in their configured order, each once, followed by the other tickers
\* persisted under the default secret; to the default symbols alone when no other
\* ticker is persisted under it.
C3_DefaultsThenPersisted ==
    \A r \in Requests :
        LET u == req[r].unique_tickers
        IN  (ResolvedV2(req[r]) /\ req[r].secret = CP_SECRET /\ NoTokens(req[r].tickers)) =>
              /\ Len(u) >= 2
              /\ SubSeq(u, 1, 2) = <<BTC, SOL>>
              /\ NoDup(u)
              /\ Range(u) = {BTC, SOL} \cup StoreTickers(CP_SECRET)
              /\ StoreTickers(CP_SECRET) \subseteq {BTC, SOL} => u = <<BTC, SOL>>

\* the default secret holds a ticker that is no default symbol
C3_Witness ==
    \E r \in Requests :
        /\ ResolvedV2(req[r])
        /\ req[r].secret = CP_SECRET
        /\ req[r].tickers = None
        /\ req[r].unique_tickers = <<BTC, SOL, ADA>>

\* C4: when a v2 request under a non-default secret resolves, every token of its
\* tickers string is in the store under that secret, and the resolved list holds
\* every ticker persisted under the secret so far, each once (and nothing else when
\* there is any).
C4_PersistThenResolve ==
    [][\A r \in Requests :
          (req[r].pc = "read" /\ req'[r].pc = "fetch" /\ req[r].secret # CP_SECRET) =>
             LET s == req[r].secret
                 u == req'[r].unique_tickers
                 held == {row[2] : row \in {x \in BagToSet(secret_tickers') : x[1] = s}}
             IN  /\ \A k \in DOMAIN new_tickers(req[r]) : new_tickers(req[r])[k] \in held
                 /\ \A row \in committed' : row[1] = s => row[2] \in Range(u)
                 /\ held \subseteq Range(u)
                 /\ held # {} => Range(u) = held
                 /\ NoDup(u)
                 /\ req[r].tickers = <<"SOL", COMMA, SP, "ADA">> => {SOL, ADA} \subseteq held
      ]_vars

\* SOL was persisted earlier, the request brings ADA
C4_Witness ==
    \E r \in Requests :
        /\ req[r].pc = "fetch"
        /\ req[r].secret = ALICE
        /\ req[r].tickers = <<"ADA">>
        /\ Len(req[r].unique_tickers) = 2
        /\ Range(req[r].unique_tickers) = {SOL, ADA}

\* C5 as stated: a request whose add_ticker failed is not aborted, it goes on to be served.
C5_WriteFailureNotFatal ==
    \A r \in Requests : req[r].write_failed => req[r].pc \in {"add", "read", "fetch", "done"}

\* C6 as stated: on a non-success provider status the caller gets the upstream status
\* and the provider's payload, after one provider call, and no archive.
C6_UpstreamStatusSurfaced ==
    \A r \in Requests :
        LET rq == req[r]
            n == Len(rq.upstream.payload)
            m == Len(rq.response.detail)
        IN  (rq.pc = "done" /\ rq.upstream.status \notin {200, 201}) =>
              /\ rq.response.status = rq.upstream.status
              /\ m >= n /\ SubSeq(rq.response.detail, m - n + 1, m) = rq.upstream.payload
              /\ rq.calls = 1
              /\ rq.response.archive = <<>>

C8_ArchiveSortedByName ==
    z_pc = "returned" =>
        LET ts == IF z_timestamp = None THEN z_now[1] ELSE z_timestamp[1]
            n == Len(z_input.rows)
            c == CHOOSE j \in DOMAIN z_input.columns : z_input.columns[j] = "Name"
            Sorted(p) ==
                \A i \in 1..(n - 1) :
                    LET a == z_input.rows[p[i]][c]
                        b == z_input.rows[p[i + 1]][c]
                    IN  b.k = "none" \/ (a.k # "none" /\ Rank(a.s) >= Rank(b.s))
            Holds(file, p, blank) ==
                \A i \in 1..n : \A j \in DOMAIN z_input.columns :
                    LET v == z_input.rows[p[i]][j]
                        w == file.rows[i][j]
                    IN  IF v.k = "none" THEN w.k = blank /\ w.s = ""
                        ELSE w.n = v.n /\ w.s = v.s
        IN  /\ Len(z_out) = 2
            /\ {z_out[1].name, z_out[2].name} =
                  {<<"crypto_data_", ts, "/", "crypto_data_", ts, ".csv">>,
                   <<"crypto_data_", ts, "/", "crypto_data_", ts, ".xlsx">>}
            /\ z_out[1].name # z_out[2].name
            /\ \A e \in 1..2 :
                  /\ z_out[e].file.header = z_input.columns
                  /\ Len(z_out[e].file.rows) = n
                  /\ \E p \in Perms(n) :
                        /\ Sorted(p)
                        /\ Holds(z_out[e].file, p,
                                 IF z_out[e].name[6] = ".csv" THEN "text" ELSE "blank")
            /\ z_dataframe = z_input

\* a frame in ascending name order, packaged with a generated timestamp
C8_Witness ==
    /\ z_pc = "returned"
    /\ z_timestamp = None
    /\ Len(z_input.rows) = 2
    /\ z_input.rows[1][1] = PyStr("Bitcoin")
    /\ z_input.rows[2][1] = PyStr("Solana")
    /\ z_out[2].file.rows[1][1].s = "Solana"

\* C9: the store holds no row twice, and every row an INSERT committed is still there.
C9_StoreUniqueAndGrowing ==
    /\ \A row \in BagToSet(secret_tickers) : CopiesIn(row, secret_tickers) = 1
    /\ committed \subseteq BagToSet(secret_tickers)

\* two requests inserted the same pair; one of them then failed at its read
C9_Witness ==
    /\ req["r1"].pc = "aborted" /\ ~req["r1"].write_failed
    /\ req["r1"].secret = ALICE /\ req["r1"].tickers = <<"ADA">> /\ req["r1"].i = 1
    /\ req["r2"].secret = ALICE /\ req["r2"].tickers = <<"ADA">> /\ req["r2"].i = 1
    /\ req["r2"].pc \in {"read", "fetch"}
    /\ CopiesIn(Row(ALICE, ADA), secret_tickers) = 1

\* C10: a step changes the store only by adding one row (s, t), s the non-empty
\* secret of a v2 request at its add_ticker loop and t a token of that request's
\* tickers string; what a request reads from the store are tickers held under its
\* own secret.
C10_OwnSecretOnly ==
    [][/\ secret_tickers' # secret_tickers =>
             \E r \in Requests :
                /\ req[r].pc = "add" /\ req[r].version = "v2" /\ Truthy(req[r].secret)
                /\ \A q \in Requests \ {r} : req'[q] = req[q]
                /\ \E a, b \in 1..Len(req[r].tickers) :
                      LET t == SubSeq(req[r].tickers, a, b)
                      IN  /\ IsTokenOf(t, req[r].tickers)
                          /\ ~BagIn(Row(req[r].secret, t), secret_tickers)
                          /\ secret_tickers' =
                                secret_tickers (+) SetToBag({Row(req[r].secret, t)})
       /\ \A r \in Requests :
             (req[r].pc = "read" /\ req'[r].pc = "fetch") =>
                Range(req'[r].final_tickers) \subseteq
                    (IF req[r].secret = CP_SECRET THEN {BTC, SOL} ELSE {})
                        \cup StoreTickers(req[r].secret)
       /\ \A r \in Requests :
             (req[r].pc = "idle" /\ req'[r].pc = "fetch") => secret_tickers' = secret_tickers
      ]_vars

\* a request under one secret resolved while another secret holds a ticker it lacks
C10_Witness ==
    \E r \in Requests :
        /\ req[r].pc = "fetch"
        /\ req[r].secret = ALICE
        /\ StoreTickers(ALICE) # {}
        /\ \E t \in StoreTickers(CP_SECRET) : t \notin Range(req[r].final_tickers)

====
